---- MODULE Spec2Model ----
(***************************************************************************)
(* Model of the three OpenCV learning scripts of src/opencv:               *)
(*   add_frame_numbers.py  add_frame_numbers_to_video                      *)
(*   capture_channel.py    rotate_and_split_into_channels,                 *)
(*                         capture_channel_from_frame                      *)
(*   frame_capture.py      capture_specific_frame, capture_multiple_frames *)
(* One behaviour is one call of one of the four operations on one video.   *)
(* The video library is modelled by what the scripts observe of it: whether *)
(* a handle opens, the frame count the container reports, how many frames   *)
(* really decode, the frame size, and whether an image write succeeds.      *)
(***************************************************************************)
EXTENDS Integers, Sequences, FiniteSets, TLC

VARIABLES sizes, op, pc, video, args, size, cap, out, pos, frame_count, idx,
          calls, channels, selected_channel, result

vars == <<sizes, op, pc, video, args, size, cap, out, pos, frame_count, idx,
          calls, channels, selected_channel, result>>

(* ---------------------------------------------------------------- bounds *)
MaxDim == 3
MaxTotal == 3
MaxFrames == 31
MaxList == 3

(* ------------------------------------------------------ program constants *)
ProgressEvery == 30
ROTATE_90_COUNTERCLOCKWISE == 2
HDWidth == 1280
HDHeight == 720

(* an optional argument: None is the empty sequence, a value v is <<v>> *)
None == <<>>

Some(v) == <<v>>

Min(a, b) == IF a < b THEN a ELSE b

(* --------------------------------------------------------- pure functions *)
(* numpy basic slice a:b on an axis of length n, for 0 <= a, 0 <= b:        *)
(* both ends are clamped to n and an inverted range is empty.               *)
PySlice(a, b, n) ==
    LET lo == Min(a, n)
        hi == Min(b, n)
    IN  [lo |-> lo, hi |-> IF hi < lo THEN lo ELSE hi]

(* img[r0:r1, c0:c1]: a view on img, described by the rows and columns of   *)
(* img it covers.                                                           *)
Slice(img, r0, r1, c0, c1) ==
    LET rs == PySlice(r0, r1, img.h)
        cs == PySlice(c0, c1, img.w)
    IN  [r0 |-> rs.lo, r1 |-> rs.hi, c0 |-> cs.lo, c1 |-> cs.hi]

(* selected_channel.shape[:2] *)
Shape(v) == [h |-> v.r1 - v.r0, w |-> v.c1 - v.c0]

(* cv2.resize(frame, (IMAGE_WIDTH, IMAGE_HEIGHT)): dsize is (width, height) *)
resize(frame, IMAGE_WIDTH, IMAGE_HEIGHT) == [h |-> IMAGE_HEIGHT, w |-> IMAGE_WIDTH]

rotateNoSwap(img, code) == img

(* cv2.rotate(img, 2): 90 degrees counter-clockwise, rows and columns swap  *)
rotate(img, code) ==
    IF code = ROTATE_90_COUNTERCLOCKWISE THEN [h |-> img.w, w |-> img.h] ELSE img

(* the rotated frame the split works on *)
Rotated(frame, IMAGE_WIDTH, IMAGE_HEIGHT) ==
    rotate(resize(frame, IMAGE_WIDTH, IMAGE_HEIGHT), 2)

(* mutant: every quadrant cut to half-height x half-width *)
split_floor_sized(frame, IMAGE_WIDTH, IMAGE_HEIGHT) ==
    LET img == Rotated(frame, IMAGE_WIDTH, IMAGE_HEIGHT)
        w_half == img.w \div 2
        h_half == img.h \div 2
    IN  << Slice(img, h_half, 2 * h_half, 0, w_half),
           Slice(img, 0, h_half, 0, w_half),
           Slice(img, h_half, 2 * h_half, w_half, 2 * w_half),
           Slice(img, 0, h_half, w_half, 2 * w_half) >>

(* mutant: the two top quadrants overlap the bottom ones by one row *)
split_overlapping(frame, IMAGE_WIDTH, IMAGE_HEIGHT) ==
    LET img == Rotated(frame, IMAGE_WIDTH, IMAGE_HEIGHT)
        rotated_height == img.h
        rotated_width == img.w
        w_half == rotated_width \div 2
        h_half == rotated_height \div 2
    IN  << Slice(img, h_half, rotated_height, 0, w_half),
           Slice(img, 0, h_half + 1, 0, w_half),
           Slice(img, h_half, rotated_height, w_half, rotated_width),
           Slice(img, 0, h_half + 1, w_half, rotated_width) >>

(* mutant: the list in the order top-left, top-right, bottom-left, ...      *)
split_reordered(frame, IMAGE_WIDTH, IMAGE_HEIGHT) ==
    LET img == Rotated(frame, IMAGE_WIDTH, IMAGE_HEIGHT)
        rotated_height == img.h
        rotated_width == img.w
        w_half == rotated_width \div 2
        h_half == rotated_height \div 2
    IN  << Slice(img, 0, h_half, 0, w_half),
           Slice(img, 0, h_half, w_half, rotated_width),
           Slice(img, h_half, rotated_height, 0, w_half),
           Slice(img, h_half, rotated_height, w_half, rotated_width) >>

rotate_and_split_into_channels(frame, IMAGE_WIDTH, IMAGE_HEIGHT) ==
    LET img == Rotated(frame, IMAGE_WIDTH, IMAGE_HEIGHT)
        rotated_height == img.h
        rotated_width == img.w
        w_half == rotated_width \div 2
        h_half == rotated_height \div 2
        ch1 == Slice(img, h_half, rotated_height, 0, w_half)
        ch2 == Slice(img, 0, h_half, 0, w_half)
        ch3 == Slice(img, h_half, rotated_height, w_half, rotated_width)
        ch4 == Slice(img, 0, h_half, w_half, rotated_width)
    IN  <<ch1, ch2, ch3, ch4>>

(* ------------------------------------------------------------ the library *)
(* one call into the video library: its name, its argument, its outcome *)
Call(f, a, ok) == [f |-> f, a |-> a, ok |-> ok]

(* the input files an operation may be given: whether the container opens,  *)
(* the frame count it reports, the number of frames that really decode, and *)
(* the frame size                                                           *)
Videos(maxFrames, frameSizes) ==
    { [canOpen |-> FALSE, total_frames |-> 0, nframes |-> 0, width |-> 1, height |-> 1] }
    \cup
    { [canOpen |-> TRUE, total_frames |-> t, nframes |-> n, width |-> s[1], height |-> s[2]] :
        t \in 0..MaxTotal, n \in 0..maxFrames, s \in frameSizes }

(* for the operations that never look at the frame size *)
OneSize == { CHOOSE s \in sizes : TRUE }

(* cap.read() at position p: ret is True while frames remain to decode *)
ReadOk(p) == p >= 0 /\ p < video.nframes

(* the frame cap.read() returns: height rows, width columns *)
DecodedFrame == [h |-> video.height, w |-> video.width]

NoFrame == [r0 |-> 0, r1 |-> 0, c0 |-> 0, c1 |-> 0]

(* ------------------------------------------------------------------- Init *)
NoVideo ==
    [canOpen |-> FALSE, total_frames |-> 0, nframes |-> 0, width |-> 1, height |-> 1]

NoArgs ==
    [frame_number |-> 0, channel |-> 0, IMAGE_WIDTH |-> None,
     IMAGE_HEIGHT |-> None, frame_numbers |-> <<>>]

NoSize == [IMAGE_WIDTH |-> None, IMAGE_HEIGHT |-> None]

SmallSizes == (1..MaxDim) \X (1..MaxDim)

HDSizes == {<<HDWidth, HDHeight>>}

Idle ==
    /\ op = "idle"
    /\ pc = "idle"
    /\ video = NoVideo
    /\ args = NoArgs
    /\ size = NoSize
    /\ cap = "none"
    /\ out = "none"
    /\ pos = 0
    /\ frame_count = 0
    /\ idx = 1
    /\ calls = <<>>
    /\ channels = <<>>
    /\ selected_channel = NoFrame
    /\ result = "pending"

Init ==
    /\ sizes = SmallSizes
    /\ Idle

InitHD ==
    /\ sizes = HDSizes
    /\ Idle

Return(value) ==
    /\ pc' = "returned"
    /\ result' = value

Raise(exception) ==
    /\ pc' = "raised"
    /\ result' = exception

FrameNumbers == -1..MaxTotal

OutOfRange(frame_number, total_frames) ==
    frame_number >= total_frames \/ frame_number < 0

(* ------------------------------------------- add_frame_numbers_to_video *)
Call_add_frame_numbers_to_video ==
    /\ pc = "idle"
    /\ op' = "add_frame_numbers_to_video"
    /\ pc' = "open"
    /\ UNCHANGED <<sizes, video, args, size, cap, out, pos, frame_count, idx,
                   calls, channels, selected_channel, result>>

(* cap = cv2.VideoCapture(input_path); if not cap.isOpened(): return False *)
Annotate_Open ==
    /\ op = "add_frame_numbers_to_video"
    /\ pc = "open"
    /\ \E v \in Videos(MaxFrames, sizes) :
        /\ video' = v
        /\ calls' = Append(calls, Call("VideoCapture", 0, v.canOpen))
        /\ IF v.canOpen
             THEN /\ cap' = "open"
                  /\ pc' = "writer"
                  /\ UNCHANGED result
             ELSE /\ cap' = "closed"
                  /\ Return("False")
    /\ UNCHANGED <<sizes, op, args, size, out, pos, frame_count, idx,
                   channels, selected_channel>>

(* mutant: the failure path of the writer returns without cap.release() *)
Annotate_Writer_leak ==
    /\ op = "add_frame_numbers_to_video"
    /\ pc = "writer"
    /\ \E ok \in BOOLEAN :
        IF ok
          THEN /\ out' = "open"
               /\ calls' = Append(calls, Call("VideoWriter", 0, TRUE))
               /\ pc' = "loop"
               /\ UNCHANGED <<cap, result>>
          ELSE /\ out' = "closed"
               /\ calls' = Append(calls, Call("VideoWriter", 0, FALSE))
               /\ Return("False")
               /\ UNCHANGED cap
    /\ UNCHANGED <<sizes, op, video, args, size, pos, frame_count, idx,
                   channels, selected_channel>>

(* out = cv2.VideoWriter(...); if not out.isOpened(): cap.release(); return False *)
Annotate_Writer ==
    /\ op = "add_frame_numbers_to_video"
    /\ pc = "writer"
    /\ \E ok \in BOOLEAN :
        IF ok
          THEN /\ out' = "open"
               /\ calls' = Append(calls, Call("VideoWriter", 0, TRUE))
               /\ pc' = "loop"
               /\ UNCHANGED <<cap, result>>
          ELSE /\ out' = "closed"
               /\ calls' = calls \o << Call("VideoWriter", 0, FALSE),
                                       Call("cap.release", 0, TRUE) >>
               /\ cap' = "released"
               /\ Return("False")
    /\ UNCHANGED <<sizes, op, video, args, size, pos, frame_count, idx,
                   channels, selected_channel>>

(* one pass of "while True": read, break on failure, else draw the counter, *)
(* write the frame, count it and print the progress every 30 frames; the    *)
(* progress is frame_count / total_frames, a ZeroDivisionError when the     *)
(* container reported no frame count                                        *)
Annotate_Loop ==
    /\ op = "add_frame_numbers_to_video"
    /\ pc = "loop"
    /\ IF ~ReadOk(pos)
         THEN /\ calls' = Append(calls, Call("read", pos, FALSE))
              /\ pc' = "release"
              /\ UNCHANGED <<pos, frame_count, result>>
         ELSE /\ calls' = calls \o << Call("read", pos, TRUE),
                                      Call("out.write", frame_count, TRUE) >>
              /\ pos' = pos + 1
              /\ frame_count' = frame_count + 1
              /\ IF (frame_count + 1) % ProgressEvery = 0 /\ video.total_frames = 0
                   THEN Raise("ZeroDivisionError")
                   ELSE pc' = "loop" /\ UNCHANGED result
    /\ UNCHANGED <<sizes, op, video, args, size, cap, out, idx,
                   channels, selected_channel>>

(* cap.release(); out.release(); return True *)
Annotate_Release ==
    /\ op = "add_frame_numbers_to_video"
    /\ pc = "release"
    /\ cap' = "released"
    /\ out' = "released"
    /\ calls' = calls \o << Call("cap.release", 0, TRUE), Call("out.release", 0, TRUE) >>
    /\ Return("True")
    /\ UNCHANGED <<sizes, op, video, args, size, pos, frame_count, idx,
                   channels, selected_channel>>

(* ------------------------------------------------ capture_specific_frame *)
Call_capture_specific_frame ==
    /\ pc = "idle"
    /\ op' = "capture_specific_frame"
    /\ pc' = "open"
    /\ \E n \in FrameNumbers : args' = [NoArgs EXCEPT !.frame_number = n]
    /\ UNCHANGED <<sizes, video, size, cap, out, pos, frame_count, idx,
                   calls, channels, selected_channel, result>>

(* cap = cv2.VideoCapture(video_path); if not cap.isOpened(): return False *)
Specific_Open ==
    /\ op = "capture_specific_frame"
    /\ pc = "open"
    /\ \E v \in Videos(MaxTotal, OneSize) :
        /\ video' = v
        /\ calls' = Append(calls, Call("VideoCapture", 0, v.canOpen))
        /\ IF v.canOpen
             THEN /\ cap' = "open"
                  /\ pc' = "check"
                  /\ UNCHANGED result
             ELSE /\ cap' = "closed"
                  /\ Return("False")
    /\ UNCHANGED <<sizes, op, args, size, out, pos, frame_count, idx,
                   channels, selected_channel>>

(* mutant: frame_number > total_frames, one index too many accepted *)
Specific_CheckRange_off_by_one ==
    /\ op = "capture_specific_frame"
    /\ pc = "check"
    /\ IF args.frame_number > video.total_frames \/ args.frame_number < 0
         THEN /\ cap' = "released"
              /\ calls' = Append(calls, Call("cap.release", 0, TRUE))
              /\ Return("False")
         ELSE /\ pc' = "seek"
              /\ UNCHANGED <<cap, calls, result>>
    /\ UNCHANGED <<sizes, op, video, args, size, out, pos, frame_count, idx,
                   channels, selected_channel>>

(* if frame_number >= total_frames or frame_number < 0: release, return False *)
Specific_CheckRange ==
    /\ op = "capture_specific_frame"
    /\ pc = "check"
    /\ IF OutOfRange(args.frame_number, video.total_frames)
         THEN /\ cap' = "released"
              /\ calls' = Append(calls, Call("cap.release", 0, TRUE))
              /\ Return("False")
         ELSE /\ pc' = "seek"
              /\ UNCHANGED <<cap, calls, result>>
    /\ UNCHANGED <<sizes, op, video, args, size, out, pos, frame_count, idx,
                   channels, selected_channel>>

(* cap.set(cv2.CAP_PROP_POS_FRAMES, frame_number) *)
Specific_Seek ==
    /\ op = "capture_specific_frame"
    /\ pc = "seek"
    /\ calls' = Append(calls, Call("set", args.frame_number, TRUE))
    /\ pos' = args.frame_number
    /\ pc' = "read"
    /\ UNCHANGED <<sizes, op, video, args, size, cap, out, frame_count, idx,
                   channels, selected_channel, result>>

(* ret, frame = cap.read(); on failure: release, return False *)
Specific_Read ==
    /\ op = "capture_specific_frame"
    /\ pc = "read"
    /\ IF ReadOk(pos)
         THEN /\ calls' = Append(calls, Call("read", pos, TRUE))
              /\ pos' = pos + 1
              /\ pc' = "save"
              /\ UNCHANGED <<cap, result>>
         ELSE /\ calls' = calls \o << Call("read", pos, FALSE),
                                      Call("cap.release", 0, TRUE) >>
              /\ cap' = "released"
              /\ Return("False")
              /\ UNCHANGED pos
    /\ UNCHANGED <<sizes, op, video, args, size, out, frame_count, idx,
                   channels, selected_channel>>

(* cv2.imwrite(output_path, frame), its result unused; release; return True *)
Specific_Save ==
    /\ op = "capture_specific_frame"
    /\ pc = "save"
    /\ \E ok \in BOOLEAN :
        calls' = calls \o << Call("imwrite", args.frame_number, ok),
                             Call("cap.release", 0, TRUE) >>
    /\ cap' = "released"
    /\ Return("True")
    /\ UNCHANGED <<sizes, op, video, args, size, out, pos, frame_count, idx,
                   channels, selected_channel>>

(* -------------------------------------------- capture_channel_from_frame *)
Channels == 0..5

ImageDims == {None} \cup { Some(d) : d \in 1..MaxDim }

Call_capture_channel_from_frame ==
    /\ pc = "idle"
    /\ op' = "capture_channel_from_frame"
    /\ pc' = "channel"
    /\ \E n \in FrameNumbers, k \in Channels, iw \in ImageDims, ih \in ImageDims :
        args' = [NoArgs EXCEPT !.frame_number = n, !.channel = k,
                               !.IMAGE_WIDTH = iw, !.IMAGE_HEIGHT = ih]
    /\ UNCHANGED <<sizes, video, size, cap, out, pos, frame_count, idx,
                   calls, channels, selected_channel, result>>

(* mutant: the channel number is not checked before the video is opened *)
Channel_CheckChannel_missing ==
    /\ op = "capture_channel_from_frame"
    /\ pc = "channel"
    /\ pc' = "open"
    /\ UNCHANGED <<sizes, op, video, args, size, cap, out, pos, frame_count, idx,
                   calls, channels, selected_channel, result>>

(* if channel not in [1, 2, 3, 4]: return False *)
Channel_CheckChannel ==
    /\ op = "capture_channel_from_frame"
    /\ pc = "channel"
    /\ IF args.channel \notin {1, 2, 3, 4}
         THEN Return("False")
         ELSE pc' = "open" /\ UNCHANGED result
    /\ UNCHANGED <<sizes, op, video, args, size, cap, out, pos, frame_count, idx,
                   calls, channels, selected_channel>>

(* cap = cv2.VideoCapture(video_path); if not cap.isOpened(): return False *)
Channel_Open ==
    /\ op = "capture_channel_from_frame"
    /\ pc = "open"
    /\ \E v \in Videos(MaxTotal, sizes) :
        /\ video' = v
        /\ calls' = Append(calls, Call("VideoCapture", 0, v.canOpen))
        /\ IF v.canOpen
             THEN /\ cap' = "open"
                  /\ pc' = "check"
                  /\ UNCHANGED result
             ELSE /\ cap' = "closed"
                  /\ Return("False")
    /\ UNCHANGED <<sizes, op, args, size, out, pos, frame_count, idx,
                   channels, selected_channel>>

(* IMAGE_WIDTH / IMAGE_HEIGHT default to the size of the video; then        *)
(* if frame_number >= total_frames or frame_number < 0: release, return False *)
Channel_CheckRange ==
    /\ op = "capture_channel_from_frame"
    /\ pc = "check"
    /\ size' = [IMAGE_WIDTH |-> IF args.IMAGE_WIDTH = None
                                  THEN Some(video.width) ELSE args.IMAGE_WIDTH,
                IMAGE_HEIGHT |-> IF args.IMAGE_HEIGHT = None
                                   THEN Some(video.height) ELSE args.IMAGE_HEIGHT]
    /\ IF OutOfRange(args.frame_number, video.total_frames)
         THEN /\ cap' = "released"
              /\ calls' = Append(calls, Call("cap.release", 0, TRUE))
              /\ Return("False")
         ELSE /\ pc' = "seek"
              /\ UNCHANGED <<cap, calls, result>>
    /\ UNCHANGED <<sizes, op, video, args, out, pos, frame_count, idx,
                   channels, selected_channel>>

(* cap.set(cv2.CAP_PROP_POS_FRAMES, frame_number) *)
Channel_Seek ==
    /\ op = "capture_channel_from_frame"
    /\ pc = "seek"
    /\ calls' = Append(calls, Call("set", args.frame_number, TRUE))
    /\ pos' = args.frame_number
    /\ pc' = "read"
    /\ UNCHANGED <<sizes, op, video, args, size, cap, out, frame_count, idx,
                   channels, selected_channel, result>>

(* ret, frame = cap.read(); if not ret: release, return False *)
Channel_Read ==
    /\ op = "capture_channel_from_frame"
    /\ pc = "read"
    /\ IF ReadOk(pos)
         THEN /\ calls' = Append(calls, Call("read", pos, TRUE))
              /\ pos' = pos + 1
              /\ pc' = "split"
              /\ UNCHANGED <<cap, result>>
         ELSE /\ calls' = calls \o << Call("read", pos, FALSE),
                                      Call("cap.release", 0, TRUE) >>
              /\ cap' = "released"
              /\ Return("False")
              /\ UNCHANGED pos
    /\ UNCHANGED <<sizes, op, video, args, size, out, frame_count, idx,
                   channels, selected_channel>>

(* channels = rotate_and_split_into_channels(frame, IMAGE_WIDTH, IMAGE_HEIGHT) *)
(* selected_channel = channels[channel - 1]; sequences here start at 1       *)
Channel_Split ==
    /\ op = "capture_channel_from_frame"
    /\ pc = "split"
    /\ channels' = rotate_and_split_into_channels(
                       DecodedFrame, size.IMAGE_WIDTH[1], size.IMAGE_HEIGHT[1])
    /\ selected_channel' = channels'[(args.channel - 1) + 1]
    /\ pc' = "save"
    /\ UNCHANGED <<sizes, op, video, args, size, cap, out, pos, frame_count, idx,
                   calls, result>>

(* cv2.imwrite(output_path, selected_channel), its result unused; release;  *)
(* return True. cv2.imwrite refuses an empty image with a cv2.error (its    *)
(* assertion !_img.empty()), which leaves the function before the release.  *)
Channel_Save ==
    /\ op = "capture_channel_from_frame"
    /\ pc = "save"
    /\ IF Shape(selected_channel).h = 0 \/ Shape(selected_channel).w = 0
         THEN /\ Raise("cv2.error")
              /\ UNCHANGED <<calls, cap>>
         ELSE /\ \E ok \in BOOLEAN :
                   calls' = calls \o << Call("imwrite", args.frame_number, ok),
                                        Call("cap.release", 0, TRUE) >>
              /\ cap' = "released"
              /\ Return("True")
    /\ UNCHANGED <<sizes, op, video, args, size, out, pos, frame_count, idx,
                   channels, selected_channel>>

(* ----------------------------------------------- capture_multiple_frames *)
RECURSIVE ListsOfLen(_)
ListsOfLen(n) ==
    IF n = 0 THEN { <<>> }
    ELSE { Append(l, x) : l \in ListsOfLen(n - 1), x \in FrameNumbers }

FrameLists == UNION { ListsOfLen(n) : n \in 0..MaxList }

Call_capture_multiple_frames ==
    /\ pc = "idle"
    /\ op' = "capture_multiple_frames"
    /\ pc' = "open"
    /\ \E l \in FrameLists : args' = [NoArgs EXCEPT !.frame_numbers = l]
    /\ UNCHANGED <<sizes, video, size, cap, out, pos, frame_count, idx,
                   calls, channels, selected_channel, result>>

(* cap = cv2.VideoCapture(video_path); if not cap.isOpened(): return (None) *)
Multiple_Open ==
    /\ op = "capture_multiple_frames"
    /\ pc = "open"
    /\ \E v \in Videos(MaxTotal, OneSize) :
        /\ video' = v
        /\ calls' = Append(calls, Call("VideoCapture", 0, v.canOpen))
        /\ IF v.canOpen
             THEN /\ cap' = "open"
                  /\ pc' = "for"
                  /\ UNCHANGED result
             ELSE /\ cap' = "closed"
                  /\ Return("None")
    /\ UNCHANGED <<sizes, op, args, size, out, pos, frame_count, idx,
                   channels, selected_channel>>

(* mutant: an index out of range ends the loop (break for continue) *)
Multiple_Iterate_break ==
    /\ op = "capture_multiple_frames"
    /\ pc = "for"
    /\ idx <= Len(args.frame_numbers)
    /\ LET frame_num == args.frame_numbers[idx] IN
        IF OutOfRange(frame_num, video.total_frames)
          THEN /\ idx' = Len(args.frame_numbers) + 1
               /\ UNCHANGED <<calls, pos>>
          ELSE IF ReadOk(frame_num)
            THEN /\ \E ok \in BOOLEAN :
                      calls' = calls \o << Call("set", frame_num, TRUE),
                                           Call("read", frame_num, TRUE),
                                           Call("imwrite", frame_num, ok) >>
                 /\ pos' = frame_num + 1
                 /\ idx' = idx + 1
            ELSE /\ calls' = calls \o << Call("set", frame_num, TRUE),
                                         Call("read", frame_num, FALSE) >>
                 /\ pos' = frame_num
                 /\ idx' = idx + 1
    /\ UNCHANGED <<sizes, op, pc, video, args, size, cap, out, frame_count,
                   channels, selected_channel, result>>

(* one pass of "for frame_num in frame_numbers": skip an index out of       *)
(* range; else seek, read, and write the image when the read succeeded      *)
Multiple_Iterate ==
    /\ op = "capture_multiple_frames"
    /\ pc = "for"
    /\ idx <= Len(args.frame_numbers)
    /\ LET frame_num == args.frame_numbers[idx] IN
        IF OutOfRange(frame_num, video.total_frames)
          THEN UNCHANGED <<calls, pos>>
          ELSE IF ReadOk(frame_num)
            THEN /\ \E ok \in BOOLEAN :
                      calls' = calls \o << Call("set", frame_num, TRUE),
                                           Call("read", frame_num, TRUE),
                                           Call("imwrite", frame_num, ok) >>
                 /\ pos' = frame_num + 1
            ELSE /\ calls' = calls \o << Call("set", frame_num, TRUE),
                                         Call("read", frame_num, FALSE) >>
                 /\ pos' = frame_num
    /\ idx' = idx + 1
    /\ UNCHANGED <<sizes, op, pc, video, args, size, cap, out, frame_count,
                   channels, selected_channel, result>>

(* after the loop: cap.release(); the function ends without a return value *)
Multiple_Finish ==
    /\ op = "capture_multiple_frames"
    /\ pc = "for"
    /\ idx > Len(args.frame_numbers)
    /\ cap' = "released"
    /\ calls' = Append(calls, Call("cap.release", 0, TRUE))
    /\ Return("None")
    /\ UNCHANGED <<sizes, op, video, args, size, out, pos, frame_count, idx,
                   channels, selected_channel>>

Next ==
    \/ Call_add_frame_numbers_to_video
    \/ Annotate_Open
    \/ Annotate_Writer
    \/ Annotate_Loop
    \/ Annotate_Release
    \/ Call_capture_specific_frame
    \/ Specific_Open
    \/ Specific_CheckRange
    \/ Specific_Seek
    \/ Specific_Read
    \/ Specific_Save
    \/ Call_capture_channel_from_frame
    \/ Channel_CheckChannel
    \/ Channel_Open
    \/ Channel_CheckRange
    \/ Channel_Seek
    \/ Channel_Read
    \/ Channel_Split
    \/ Channel_Save
    \/ Call_capture_multiple_frames
    \/ Multiple_Open
    \/ Multiple_Iterate
    \/ Multiple_Finish

Spec == Init /\ [][Next]_vars

SpecHD == InitHD /\ [][Next]_vars

(* ======================================================== the claims ===== *)
CallsOf(f) == SelectSeq(calls, LAMBDA c : c.f = f)

(* the arguments of the calls of f, in call order *)
ArgsOf(f) == [i \in 1..Len(CallsOf(f)) |-> CallsOf(f)[i].a]

Terminated == pc \in {"returned", "raised"}

(* the split of capture_channel_from_frame has run *)
SplitDone == op = "capture_channel_from_frame" /\ channels # <<>>

(* the frame handed to the split is W wide and H tall after the resize; the *)
(* rotated frame has H_rot = W rows and W_rot = H columns                   *)
W == size.IMAGE_WIDTH[1]

H == size.IMAGE_HEIGHT[1]

InRegion(v, r, c) == v.r0 <= r /\ r < v.r1 /\ v.c0 <= c /\ c < v.c1

Area(v) == Shape(v).h * Shape(v).w

(* C1: the four sub-frames are pairwise disjoint regions of the rotated     *)
(* frame (W rows, H columns) and cover it: every pixel of the rotated frame *)
(* is in exactly one of ch1..ch4, and no sub-frame reaches outside it.      *)
C1_DisjointCover ==
    SplitDone =>
        /\ \A r \in 0..(W - 1), c \in 0..(H - 1) :
              Cardinality({ k \in 1..4 : InRegion(channels[k], r, c) }) = 1
        /\ \A k \in 1..4 :
              /\ 0 <= channels[k].r0 /\ channels[k].r1 <= W
              /\ 0 <= channels[k].c0 /\ channels[k].c1 <= H

(* a split of a frame with an odd number of rows and an even number of      *)
(* columns after rotation                                                   *)
C1_Witness == SplitDone /\ W = 3 /\ H = 2

(* C2 as stated: every sub-frame has exactly H_rot // 2 rows and            *)
(* W_rot // 2 columns, so the four areas sum to                             *)
(* (W_rot // 2 * 2) * (H_rot // 2 * 2).                                     *)
C2_AllFloorSized ==
    SplitDone =>
        /\ \A k \in 1..4 : Shape(channels[k]) = [h |-> W \div 2, w |-> H \div 2]
        /\ Area(channels[1]) + Area(channels[2]) + Area(channels[3]) + Area(channels[4])
              = ((H \div 2) * 2) * ((W \div 2) * 2)

(* C2 amended: only ch2 (top-left) is H_rot // 2 by W_rot // 2; the bottom  *)
(* sub-frames have H_rot - H_rot // 2 rows and the right ones               *)
(* W_rot - W_rot // 2 columns, the areas sum to W_rot * H_rot, and all four *)
(* are H_rot // 2 by W_rot // 2 exactly when both dimensions are even.      *)
C2_Sizes ==
    SplitDone =>
        LET h_half == W \div 2
            w_half == H \div 2
        IN  /\ Shape(channels[2]) = [h |-> h_half, w |-> w_half]
            /\ Shape(channels[1]) = [h |-> W - h_half, w |-> w_half]
            /\ Shape(channels[3]) = [h |-> W - h_half, w |-> H - w_half]
            /\ Shape(channels[4]) = [h |-> h_half, w |-> H - w_half]
            /\ Area(channels[1]) + Area(channels[2]) + Area(channels[3])
                  + Area(channels[4]) = W * H
            /\ (\A k \in 1..4 : Shape(channels[k]) = [h |-> h_half, w |-> w_half])
                  <=> (W % 2 = 0 /\ H % 2 = 0)

(* a split where both rotated dimensions are odd *)
C2_Witness == SplitDone /\ W = 3 /\ H = 3

IsHD == W = HDWidth /\ H = HDHeight

(* C3 as stated: the rotated frame of a W x H frame is H wide and W tall,   *)
(* and the four quadrants of a 1280x720 frame are 640 wide and 360 tall.    *)
C3_HD_640wide_360tall ==
    SplitDone =>
        /\ channels[3].r1 = W /\ channels[3].c1 = H
        /\ IsHD => \A k \in 1..4 : Shape(channels[k]) = [h |-> 360, w |-> 640]

(* C3 amended: the rotated frame of a W x H frame is H wide and W tall, and *)
(* the four quadrants of a 1280x720 frame are 360 wide and 640 tall         *)
(* (half-height 640, half-width 360).                                       *)
C3_HD_360wide_640tall ==
    SplitDone =>
        /\ channels[3].r1 = W /\ channels[3].c1 = H
        /\ IsHD =>
              /\ \A k \in 1..4 : Shape(channels[k]) = [h |-> 640, w |-> 360]
              /\ channels[1].r0 = 640 /\ channels[3].c0 = 360

(* a 1280x720 video split at its own size (no resize arguments given) *)
C3_Witness ==
    /\ SplitDone /\ IsHD
    /\ args.IMAGE_WIDTH = None /\ args.IMAGE_HEIGHT = None
    /\ video.width = HDWidth /\ video.height = HDHeight

(* C4: the split returns exactly four sub-frames, ch1 = rows                *)
(* [half-height, H_rot) x columns [0, half-width), ch2 = rows               *)
(* [0, half-height) x columns [0, half-width), ch3 = rows                   *)
(* [half-height, H_rot) x columns [half-width, W_rot), ch4 = rows           *)
(* [0, half-height) x columns [half-width, W_rot), in this order, and the   *)
(* image saved for channel k is the k-th of them.                           *)
C4_Order ==
    SplitDone =>
        LET h_half == W \div 2
            w_half == H \div 2
        IN  /\ Len(channels) = 4
            /\ channels[1] = [r0 |-> h_half, r1 |-> W, c0 |-> 0, c1 |-> w_half]
            /\ channels[2] = [r0 |-> 0, r1 |-> h_half, c0 |-> 0, c1 |-> w_half]
            /\ channels[3] = [r0 |-> h_half, r1 |-> W, c0 |-> w_half, c1 |-> H]
            /\ channels[4] = [r0 |-> 0, r1 |-> h_half, c0 |-> w_half, c1 |-> H]
            /\ \A k \in 1..4 : args.channel = k => selected_channel = channels[k]

(* channel 3 of an odd-sized frame has been saved *)
C4_Witness ==
    /\ SplitDone /\ pc = "returned" /\ result = "True"
    /\ args.channel = 3 /\ W = 3 /\ H = 2
    /\ Len(CallsOf("imwrite")) = 1

(* C5: when an operation returns, every handle it opened has been released: *)
(* neither the capture nor the writer is still open, and each successful    *)
(* open is matched by one release.                                          *)
C5_Released ==
    pc = "returned" =>
        /\ cap # "open"
        /\ out # "open"
        /\ Len(CallsOf("cap.release"))
              = Len(SelectSeq(CallsOf("VideoCapture"), LAMBDA c : c.ok))
        /\ Len(CallsOf("out.release"))
              = Len(SelectSeq(CallsOf("VideoWriter"), LAMBDA c : c.ok))

(* the early return of the annotation after the writer failed to open *)
C5_Witness ==
    /\ op = "add_frame_numbers_to_video" /\ pc = "returned" /\ result = "False"
    /\ cap = "released" /\ out = "closed"

(* C6: when the annotation of an openable video with N decodable frames     *)
(* ends, it has returned True and has written exactly the counters          *)
(* 0, 1, ..., N-1, whatever frame count the container reported.             *)
C6_AllFramesNumbered ==
    (op = "add_frame_numbers_to_video" /\ Terminated /\ out \in {"open", "released"}) =>
        /\ result = "True"
        /\ ArgsOf("out.write") = [k \in 1..video.nframes |-> k - 1]

(* C7: when capture_multiple_frames ends on an openable video, a seek and a *)
(* read were issued for exactly the indices in [0, total_frames), in list   *)
(* order, an image write for exactly those of them whose read succeeded,    *)
(* and the handle is released last.                                         *)
C7_SkipOnly ==
    (op = "capture_multiple_frames" /\ pc = "returned" /\ video.canOpen) =>
        LET inRange(n) == 0 <= n /\ n < video.total_frames
            readable(n) == inRange(n) /\ n < video.nframes
        IN  /\ ArgsOf("set") = SelectSeq(args.frame_numbers, inRange)
            /\ ArgsOf("read") = SelectSeq(args.frame_numbers, inRange)
            /\ ArgsOf("imwrite") = SelectSeq(args.frame_numbers, readable)
            /\ cap = "released"
            /\ calls[Len(calls)].f = "cap.release"

(* an invalid index, then an unreadable one, then a valid one that is saved *)
C7_Witness ==
    /\ op = "capture_multiple_frames" /\ pc = "returned"
    /\ args.frame_numbers = <<-1, 1, 0>>
    /\ video.canOpen /\ video.total_frames = 2 /\ video.nframes = 1
    /\ ArgsOf("imwrite") = <<0>>

(* C8: once capture_channel_from_frame has looked at a channel outside      *)
(* {1,2,3,4} it has returned False, and it never opens a handle, seeks,     *)
(* reads, splits or writes.                                                 *)
C8_BadChannel ==
    (op = "capture_channel_from_frame" /\ pc # "channel"
       /\ ~(args.channel >= 1 /\ args.channel <= 4)) =>
        /\ pc = "returned"
        /\ result = "False"
        /\ calls = <<>>
        /\ cap = "none"
        /\ channels = <<>>

(* channel 5 has been refused *)
C8_Witness ==
    /\ op = "capture_channel_from_frame" /\ pc = "returned"
    /\ args.channel = 5 /\ args.frame_number = 0

(* C9: once capture_specific_frame or capture_channel_from_frame has        *)
(* compared a frame index < 0 or >= total_frames with the frame count of an *)
(* opened video, it has returned False without any seek, read or image      *)
(* write; and every seek any operation issues is in [0, total_frames).      *)
C9_RangeChecked ==
    /\ (/\ op \in {"capture_specific_frame", "capture_channel_from_frame"}
        /\ cap \in {"open", "released"}
        /\ pc # "check"
        /\ (args.frame_number < 0 \/ args.frame_number >= video.total_frames)) =>
            /\ pc = "returned"
            /\ result = "False"
            /\ CallsOf("set") = <<>>
            /\ CallsOf("read") = <<>>
            /\ CallsOf("imwrite") = <<>>
    /\ \A i \in 1..Len(CallsOf("set")) :
          0 <= CallsOf("set")[i].a /\ CallsOf("set")[i].a < video.total_frames

(* the first index past the end of a non-empty video has been refused *)
C9_Witness ==
    /\ op = "capture_specific_frame" /\ pc = "returned" /\ result = "False"
    /\ video.canOpen /\ video.total_frames = 2 /\ args.frame_number = 2

(* one of the five error kinds occurred in the call *)
ErrorOccurred ==
    \/ \E i \in 1..Len(calls) :
          /\ calls[i].f \in {"VideoCapture", "VideoWriter", "imwrite"}
          /\ ~calls[i].ok
    \/ /\ op # "add_frame_numbers_to_video"
       /\ \E i \in 1..Len(calls) : calls[i].f = "read" /\ ~calls[i].ok
    \/ /\ op = "capture_channel_from_frame"
       /\ args.channel \notin {1, 2, 3, 4}
    \/ /\ op \in {"capture_specific_frame", "capture_channel_from_frame"}
       /\ video.canOpen
       /\ (args.frame_number < 0 \/ args.frame_number >= video.total_frames)
    \/ /\ op = "capture_multiple_frames"
       /\ video.canOpen
       /\ \E i \in 1..Len(args.frame_numbers) :
             args.frame_numbers[i] < 0 \/ args.frame_numbers[i] >= video.total_frames

(* C10: an operation that returns after one of the five error kinds         *)
(* returns False, and an operation returns True only when none occurred.    *)
C10_ErrorsReturnFalse ==
    pc = "returned" =>
        /\ ErrorOccurred => result = "False"
        /\ result = "True" => ~ErrorOccurred

====
